---- MODULE Spec2Model ----
(***************************************************************************)
(* A model of pyappauto.Instance (src/pyappauto/__init__.py): one user     *)
(* thread calling the public methods of one Instance, the _close_handler   *)
(* threads the instance starts, and the windowing environment (windows     *)
(* that appear and disappear, subprocesses that are launched and           *)
(* terminated).  Threads interleave between statements.                    *)
(***************************************************************************)
EXTENDS Integers, Sequences, FiniteSets, TLC

\* ---------------------------------------------------------------- bounds
MaxHwnd == 1
MaxThreads == 2
MaxProcs == 2
MaxMonitors == 2
MaxText == 2

\* ------------------------------------------------- win32con / win32 values
WM_CLOSE == 16
WM_KEYDOWN == 256
WM_KEYUP == 257
WM_CHAR == 258
WM_LBUTTONDOWN == 513
WM_LBUTTONUP == 514
WM_RBUTTONDOWN == 516
WM_RBUTTONUP == 517
MK_LBUTTON == 1
MK_RBUTTON == 2
VK_RETURN == 13
VK_TAB == 9
SW_MAXIMIZE == 3
SW_NORMAL == 1
HWND_TOP == 0
SWP_NOSIZE == 1
SWP_NOMOVE == 2
SWP_NOZORDER == 4

\* ------------------------------------------------------- values and helpers
\* Python's None is the empty tuple and an int v is <<v>>, so that a field
\* holding "None or an int" can be compared without mixing types.
None == << >>

Some(v) == <<v>>

\* Python truthiness of "None or an int" (`if self._hwnd:` / `if not self._hwnd:`).
Truthy(v) == v # None /\ v[1] # 0

Handles == 1 .. MaxHwnd

Handlers == 1 .. MaxThreads

Threads == 0 .. MaxThreads

\* The user's thread, which calls the public methods.
Main == CHOOSE t \in Threads : t \notin Handlers

\* win32api.MAKELONG(low, high): two 16-bit words packed into 32 bits.
MAKELONG(x, y) == (x % 65536) + ((y % 65536) * 65536)

\* seq[i] with Python's indexing (0-based, negative indices count from the end).
PyIndex(seq, i) == IF i >= 0 THEN seq[i + 1] ELSE seq[Len(seq) + i + 1]

\* str.lower() on a string given as its sequence of character codes.
Lower(s) == [i \in 1 .. Len(s) |-> IF s[i] >= 65 /\ s[i] <= 90 THEN s[i] + 32 ELSE s[i]]

\* A native call: the function called and its arguments after the window handle.
Call(fn, a) == [fn |-> fn, args |-> a]

\* win32gui.SendMessage(self._hwnd, msg, wparam, lparam)
Send(msg, wparam, lparam) == Call("SendMessage", <<msg, wparam, lparam>>)

\* `if not self._hwnd: raise NoOpenedProcess()` at the head of a nested public call.
Check == Call("check_hwnd", << >>)

VARIABLES
    hwnd,        \* self._hwnd: None or Some(handle)
    process,     \* self.__process: None or Some(subprocess id)
    kill,        \* self.__kill
    pc,          \* position of every thread: the user thread and the handler threads
    op,          \* the public method the user thread called last
    args,        \* the arguments of that call
    raised,      \* the exception that call raised ("" if none, or not yet)
    todo,        \* the statements left of the call in progress
    sent,        \* the native calls the call has issued, each with the handle passed
    atCall,      \* whether a window was attached when the call was made
    started,     \* number of _close_handler threads started so far
    launched,    \* number of subprocesses launched so far (they are 1 .. launched)
    terminated,  \* the subprocesses close() has terminated
    windows,     \* the windows that exist (win32gui.IsWindow)
    gone         \* the windows that have existed and were destroyed

vars == <<hwnd, process, kill, pc, op, args, raised, todo, sent, atCall, started,
          launched, terminated, windows, gone>>

instance == <<hwnd, process, kill>>

env == <<windows, gone>>

Idle == pc[Main] = "idle"

Alive(t) == pc[t] \notin {"none", "done"}

IsWindow(v) == v # None /\ v[1] \in windows

\* -------------------------------------------------------------- __init__
\* The state after Instance(hwnd=h): a handler thread runs iff h is truthy.
\* A handle names one window for good: the handle of a window that is gone
\* (a stale h included) is not given to a later window.
Init ==
    /\ hwnd \in {None, Some(0)} \cup {Some(h) : h \in Handles}
    /\ process = None
    /\ kill = FALSE
    /\ pc = [t \in Threads |->
                IF t = Main THEN "idle"
                ELSE IF t = 1 /\ Truthy(hwnd) THEN "h_44" ELSE "none"]
    /\ op = "__init__"
    /\ args = <<hwnd>>
    /\ raised = ""
    /\ todo = << >>
    /\ sent = << >>
    /\ atCall = Truthy(hwnd)
    /\ started = IF Truthy(hwnd) THEN 1 ELSE 0
    /\ launched = 0
    /\ terminated = {}
    /\ windows \in SUBSET Handles
    /\ gone = IF Truthy(hwnd) /\ ~IsWindow(hwnd) THEN {hwnd[1]} ELSE {}

\* ------------------------------------------------- user-thread bookkeeping
\* The user thread enters public method `name` with arguments `a`.
Enter(name, a) ==
    /\ Idle
    /\ op' = name
    /\ args' = a
    /\ atCall' = Truthy(hwnd)

\* The user thread leaves the call in progress, raising `exc` ("" = returns).
Leave(exc) ==
    /\ pc' = [pc EXCEPT ![Main] = "idle"]
    /\ raised' = exc
    /\ todo' = << >>

\* The call raises `exc` before it has issued any native call.
Raise(exc) ==
    /\ Leave(exc)
    /\ sent' = << >>

\* The call has issued the native calls `first` and goes on with `plan`.
Run(first, plan) ==
    /\ sent' = first
    /\ IF plan = << >>
       THEN Leave("")
       ELSE /\ pc' = [pc EXCEPT ![Main] = "body"]
            /\ raised' = ""
            /\ todo' = plan

\* `if not self._hwnd: raise NoOpenedProcess()`, then the body of the method.
Guarded(plan) ==
    IF ~Truthy(hwnd) THEN Raise("NoOpenedProcess") ELSE Run(<< >>, plan)

\* Thread t leaves close(): the user thread gets the exception, a handler
\* thread ends (its target returned or raised).
LeaveClose(t, exc) ==
    /\ pc' = [pc EXCEPT ![t] = IF t = Main THEN "idle" ELSE "done"]
    /\ raised' = IF t = Main THEN exc ELSE raised

Goto(t, label) == pc' = [pc EXCEPT ![t] = label]

\* ------------------------------------------------------------------ open
\* open(): lines 65-69, the two precondition checks.
open(path_exists) ==
    /\ Enter("open", <<path_exists>>)
    /\ Truthy(hwnd) \/ ~path_exists \/ (started < MaxThreads /\ launched < MaxProcs)
    /\ IF Truthy(hwnd) THEN Raise("ProcessAlreadyOpened")
       ELSE IF ~path_exists THEN Raise("InvalidPath")
       ELSE /\ Goto(Main, "open_72")
            /\ raised' = ""
            /\ todo' = << >>
            /\ sent' = << >>
    /\ UNCHANGED <<instance, started, launched, terminated, env>>

\* line 72: self.__process = subprocess.Popen(exe_path); line 74 sleeps.
open_72 ==
    /\ pc[Main] = "open_72"
    /\ launched' = launched + 1
    /\ process' = Some(launched + 1)
    /\ sent' = Append(sent, [fn |-> "Popen", h |-> None, args |-> <<launched + 1>>])
    /\ Goto(Main, "open_77")
    /\ UNCHANGED <<hwnd, kill, op, args, raised, todo, atCall, started, terminated, env>>

\* lines 76-79: the first window with the title, or NoHwnd when the lookup fails.
open_77 ==
    /\ pc[Main] = "open_77"
    /\ \/ /\ Leave("NoHwnd")
          /\ UNCHANGED hwnd
       \/ \E w \in windows :
            /\ hwnd' = Some(w)
            /\ Goto(Main, "open_81")
            /\ UNCHANGED <<raised, todo>>
    /\ UNCHANGED <<process, kill, op, args, sent, atCall, started, launched, terminated, env>>

\* lines 81-86: NoHwnd for a falsy handle, else the handler thread is started.
open_81 ==
    /\ pc[Main] = "open_81"
    /\ IF ~Truthy(hwnd)
       THEN /\ Leave("NoHwnd")
            /\ UNCHANGED started
       ELSE /\ pc' = [pc EXCEPT ![Main] = "idle", ![started + 1] = "h_44"]
            /\ raised' = ""
            /\ todo' = << >>
            /\ started' = started + 1
    /\ UNCHANGED <<instance, op, args, sent, atCall, launched, terminated, env>>

\* ----------------------------------------------------------------- close
\* line 94: `if self.__kill: return`.
close_94(t) ==
    IF kill THEN LeaveClose(t, "")
    ELSE /\ Goto(t, "close_97")
         /\ raised' = IF t = Main THEN "" ELSE raised

\* The user thread calls close().
close ==
    /\ Enter("close", << >>)
    /\ sent' = << >>
    /\ todo' = << >>
    /\ close_94(Main)
    /\ UNCHANGED <<instance, started, launched, terminated, env>>

\* line 97: `if not self._hwnd: raise NoOpenedProcess()`.
close_97(t) ==
    /\ pc[t] = "close_97"
    /\ IF ~Truthy(hwnd) THEN LeaveClose(t, "NoOpenedProcess")
       ELSE Goto(t, "close_100") /\ UNCHANGED raised
    /\ UNCHANGED <<instance, op, args, todo, sent, atCall, started, launched, terminated, env>>

\* line 100: self.__kill = True.
close_100(t) ==
    /\ pc[t] = "close_100"
    /\ kill' = TRUE
    /\ Goto(t, "close_103")
    /\ UNCHANGED <<hwnd, process, op, args, raised, todo, sent, atCall, started, launched,
                   terminated, env>>

\* line 103: `if self.__process:`.
close_103(t) ==
    /\ pc[t] = "close_103"
    /\ Goto(t, IF process # None THEN "close_105" ELSE "close_107")
    /\ UNCHANGED <<instance, op, args, raised, todo, sent, atCall, started, launched,
                   terminated, env>>

\* line 105: self.__process.terminate(); AttributeError if another thread's
\* close() has set the field to None since line 103.
close_105(t) ==
    /\ pc[t] = "close_105"
    /\ IF process = None
       THEN /\ LeaveClose(t, "AttributeError")
            /\ UNCHANGED <<terminated, sent>>
       ELSE /\ terminated' = terminated \cup {process[1]}
            /\ sent' = IF t = Main
                       THEN Append(sent, [fn |-> "terminate", h |-> None, args |-> process])
                       ELSE sent
            /\ Goto(t, "close_110")
            /\ UNCHANGED raised
    /\ UNCHANGED <<instance, op, args, todo, atCall, started, launched, env>>

\* line 107: win32gui.PostMessage(self._hwnd, win32con.WM_CLOSE, 0, 0).
close_107(t) ==
    /\ pc[t] = "close_107"
    /\ sent' = IF t = Main
               THEN Append(sent, [fn |-> "PostMessage", h |-> hwnd, args |-> <<WM_CLOSE, 0, 0>>])
               ELSE sent
    /\ Goto(t, "close_110")
    /\ UNCHANGED <<instance, op, args, raised, todo, atCall, started, launched, terminated, env>>

\* line 110: self.__process = None.
close_110(t) ==
    /\ pc[t] = "close_110"
    /\ process' = None
    /\ Goto(t, "close_111")
    /\ UNCHANGED <<hwnd, kill, op, args, raised, todo, sent, atCall, started, launched,
                   terminated, env>>

\* line 111: self._hwnd = None.
close_111(t) ==
    /\ pc[t] = "close_111"
    /\ hwnd' = None
    /\ Goto(t, "close_112")
    /\ UNCHANGED <<process, kill, op, args, raised, todo, sent, atCall, started, launched,
                   terminated, env>>

\* line 112: the last statement, after which close() returns.
close_112(t) ==
    /\ pc[t] = "close_112"
    /\ LeaveClose(t, "")
    /\ UNCHANGED <<instance, op, args, todo, sent, atCall, started, launched, terminated, env>>

\* -------------------------------------------------------- _close_handler
\* line 44: `while not self.__kill:`.
h_44(t) ==
    /\ pc[t] = "h_44"
    /\ Goto(t, IF kill THEN "h_50" ELSE "h_45")
    /\ UNCHANGED <<instance, op, args, raised, todo, sent, atCall, started, launched,
                   terminated, env>>

\* lines 45-46: `if not win32gui.IsWindow(self._hwnd): break`.
h_45(t) ==
    /\ pc[t] = "h_45"
    /\ Goto(t, IF ~IsWindow(hwnd) THEN "h_50" ELSE "h_47")
    /\ UNCHANGED <<instance, op, args, raised, todo, sent, atCall, started, launched,
                   terminated, env>>

\* line 47: time.sleep(1).
h_47(t) ==
    /\ pc[t] = "h_47"
    /\ Goto(t, "h_44")
    /\ UNCHANGED <<instance, op, args, raised, todo, sent, atCall, started, launched,
                   terminated, env>>

\* line 50: self.close(), entered at line 94.
h_50(t) ==
    /\ pc[t] = "h_50"
    /\ close_94(t)
    /\ UNCHANGED <<instance, op, args, todo, sent, atCall, started, launched, terminated, env>>

\* ----------------------------------------------------------- environment
\* Some application (the launched one included) creates a window.
WindowAppears(w) ==
    /\ w \notin windows \cup gone
    /\ windows' = windows \cup {w}
    /\ UNCHANGED <<instance, pc, op, args, raised, todo, sent, atCall, started, launched,
                   terminated, gone>>

\* A window is destroyed: by its user, or by its application ending.
WindowCloses(w) ==
    /\ w \in windows
    /\ windows' = windows \ {w}
    /\ gone' = gone \cup {w}
    /\ UNCHANGED <<instance, pc, op, args, raised, todo, sent, atCall, started, launched,
                   terminated>>

\* ------------------------------------------------ inputs of the methods
\* Strings are sequences of character codes: "enter", "Enter", "tab", "TAB",
\* "a", "ab" and "".
StrEnter == <<101, 110, 116, 101, 114>>

StrTab == <<116, 97, 98>>

Strings == {StrEnter, <<69, 110, 116, 101, 114>>, StrTab, <<84, 65, 66>>, <<97>>, <<97, 98>>, << >>}

\* A key is a str or an int (a virtual-key code).
Keys == [isStr : {TRUE}, val : Strings] \cup [isStr : {FALSE}, val : {<<0>>, <<65>>}]

Texts == UNION {[1 .. n -> {97}] : n \in 0 .. MaxText}

Points == {<<3, 5>>}

Sizes == {<<800, 600>>}

Corners == {<<-8, 50>>}

\* win32api.EnumDisplayMonitors(None, None) with n monitors side by side:
\* (hMonitor, hdcMonitor, (left, top, right, bottom)) for each.
EnumDisplayMonitors(n) ==
    [i \in 1 .. n |-> <<i, 0, <<(i - 1) * 1920, 0, i * 1920, 1080>>>>]

\* ------------------------------------------------------- window methods
\* set_monitor(): lines 125-138.
set_monitor(n, monitor_number) ==
    /\ Enter("set_monitor", <<n, monitor_number>>)
    /\ IF ~Truthy(hwnd) THEN Raise("NoOpenedProcess")
       ELSE LET monitor_info == EnumDisplayMonitors(n)
                enum == <<[fn |-> "EnumDisplayMonitors", h |-> None, args |-> <<n>>]>>
            IN  IF monitor_number < Len(monitor_info) /\ monitor_number > -(Len(monitor_info))
                THEN LET monitor_rect == PyIndex(monitor_info, monitor_number)[3]
                     IN  Run(enum, <<Call("SetWindowPos",
                                          <<HWND_TOP, monitor_rect[1], monitor_rect[2], 0, 0,
                                            SWP_NOSIZE>>)>>)
                ELSE /\ Leave("InvalidScreen")
                     /\ sent' = enum
    /\ UNCHANGED <<instance, started, launched, terminated, env>>

\* enter_full_screen(): lines 147-151.
enter_full_screen ==
    /\ Enter("enter_full_screen", << >>)
    /\ Guarded(<<Call("ShowWindow", <<SW_MAXIMIZE>>)>>)
    /\ UNCHANGED <<instance, started, launched, terminated, env>>

\* exit_full_screen(): lines 159-163.
exit_full_screen ==
    /\ Enter("exit_full_screen", << >>)
    /\ Guarded(<<Call("ShowWindow", <<SW_NORMAL>>)>>)
    /\ UNCHANGED <<instance, started, launched, terminated, env>>

\* get_window_size(): lines 174-180.
get_window_size ==
    /\ Enter("get_window_size", << >>)
    /\ Guarded(<<Call("GetWindowRect", << >>)>>)
    /\ UNCHANGED <<instance, started, launched, terminated, env>>

\* get_window_position(): lines 192-198.
get_window_position ==
    /\ Enter("get_window_position", << >>)
    /\ Guarded(<<Call("GetWindowRect", << >>)>>)
    /\ UNCHANGED <<instance, started, launched, terminated, env>>

\* set_window_dimensions(): lines 210-216; `corner` is the (left, top) that
\* GetWindowRect reports, which get_window_position() clamps at 0.
set_window_dimensions(width, height, corner) ==
    /\ Enter("set_window_dimensions", <<width, height>>)
    /\ LET x == IF corner[1] >= 0 THEN corner[1] ELSE 0
           y == IF corner[2] >= 0 THEN corner[2] ELSE 0
       IN  Guarded(<<Check, Call("GetWindowRect", << >>),
                     Call("SetWindowPos",
                          <<0, x, y, width, height, SWP_NOMOVE + SWP_NOZORDER>>)>>)
    /\ UNCHANGED <<instance, started, launched, terminated, env>>

\* set_window_position(): lines 228-232.
set_window_position(x, y) ==
    /\ Enter("set_window_position", <<x, y>>)
    /\ Guarded(<<Call("SetWindowPos", <<HWND_TOP, x, y, 0, 0, SWP_NOSIZE>>)>>)
    /\ UNCHANGED <<instance, started, launched, terminated, env>>

\* -------------------------------------------------------- input methods
\* The two messages of left_click(): lines 248-250.
LeftClick(x, y) ==
    <<Send(WM_LBUTTONDOWN, MK_LBUTTON, MAKELONG(x, y)),
      Send(WM_LBUTTONUP, MK_LBUTTON, MAKELONG(x, y))>>

\* The two messages of right_click(): lines 266-268.
RightClick(x, y) ==
    <<Send(WM_RBUTTONDOWN, MK_RBUTTON, MAKELONG(x, y)),
      Send(WM_RBUTTONUP, MK_RBUTTON, MAKELONG(x, y))>>

left_click(x, y) ==
    /\ Enter("left_click", <<x, y>>)
    /\ Guarded(LeftClick(x, y))
    /\ UNCHANGED <<instance, started, launched, terminated, env>>

right_click(x, y) ==
    /\ Enter("right_click", <<x, y>>)
    /\ Guarded(RightClick(x, y))
    /\ UNCHANGED <<instance, started, launched, terminated, env>>

\* right_double_click(): lines 271-275, right_click() twice.
right_double_click(x, y) ==
    /\ Enter("right_double_click", <<x, y>>)
    /\ Guarded(<<Check>> \o RightClick(x, y) \o <<Check>> \o RightClick(x, y))
    /\ UNCHANGED <<instance, started, launched, terminated, env>>

\* left_double_click(): lines 278-282, left_click() twice.
left_double_click(x, y) ==
    /\ Enter("left_double_click", <<x, y>>)
    /\ Guarded(<<Check>> \o LeftClick(x, y) \o <<Check>> \o LeftClick(x, y))
    /\ UNCHANGED <<instance, started, launched, terminated, env>>

\* lines 303-306.
special_keys == (StrEnter :> VK_RETURN) @@ (StrTab :> VK_TAB)

\* The messages press_key() sends for `key`: lines 299-315.
PressKeyMessages(key) ==
    IF key.isStr /\ Len(key.val) = 1
    THEN <<Send(WM_CHAR, key.val[1], 0)>>
    ELSE IF key.isStr
    THEN IF Lower(key.val) \in DOMAIN special_keys
         THEN <<Send(WM_KEYDOWN, special_keys[Lower(key.val)], 0),
                Send(WM_KEYUP, special_keys[Lower(key.val)], 0)>>
         ELSE << >>
    ELSE IF key.val[1] # 0
    THEN <<Send(WM_KEYUP, key.val[1], 0), Send(WM_KEYUP, key.val[1], 0)>>
    ELSE << >>

\* press_key(): lines 295-315.
press_key(key) ==
    /\ Enter("press_key", <<key>>)
    /\ Guarded(PressKeyMessages(key))
    /\ UNCHANGED <<instance, started, launched, terminated, env>>

\* typewrite(): lines 329-335, one WM_CHAR per character.
typewrite(text) ==
    /\ Enter("typewrite", <<text>>)
    /\ Guarded([i \in 1 .. Len(text) |-> Send(WM_CHAR, text[i], 0)])
    /\ UNCHANGED <<instance, started, launched, terminated, env>>

\* find_image_on_screen() with its two checks swapped: the path first.
find_image_on_screen_PathFirst(path_exists) ==
    /\ Enter("find_image_on_screen", <<path_exists>>)
    /\ IF ~path_exists THEN Raise("InvalidPath")
       ELSE IF ~Truthy(hwnd) THEN Raise("NoOpenedProcess")
       ELSE Run(<< >>, <<Call("GetWindowRect", << >>), Call("GetWindowDC", << >>)>>)
    /\ UNCHANGED <<instance, started, launched, terminated, env>>

\* find_image_on_screen(): lines 352-372; the matching itself is cv2's.
find_image_on_screen(path_exists) ==
    /\ Enter("find_image_on_screen", <<path_exists>>)
    /\ IF ~Truthy(hwnd) THEN Raise("NoOpenedProcess")
       ELSE IF ~path_exists THEN Raise("InvalidPath")
       ELSE Run(<< >>, <<Call("GetWindowRect", << >>), Call("GetWindowDC", << >>)>>)
    /\ UNCHANGED <<instance, started, launched, terminated, env>>

\* One statement of the call in progress: a nested hwnd check or a native call
\* on self._hwnd as it is now.  A native call on a handle that is no window
\* may fail (pywintypes.error).
body ==
    /\ pc[Main] = "body"
    /\ LET c == Head(todo)
           more == IF Len(todo) = 1 THEN Leave("")
                   ELSE todo' = Tail(todo) /\ UNCHANGED <<pc, raised>>
       IN  IF c = Check
           THEN /\ UNCHANGED sent
                /\ IF ~Truthy(hwnd) THEN Leave("NoOpenedProcess") ELSE more
           ELSE /\ sent' = Append(sent, [fn |-> c.fn, h |-> hwnd, args |-> c.args])
                /\ \/ more
                   \/ ~IsWindow(hwnd) /\ Leave("error")
    /\ UNCHANGED <<instance, op, args, atCall, started, launched, terminated, env>>

\* ------------------------------------------------------------ the system
\* The calls that only need a window: every public method but open and close.
GuardedCall ==
    \/ \E n \in 1 .. MaxMonitors : \E m \in -(n + 1) .. (n + 1) : set_monitor(n, m)
    \/ enter_full_screen
    \/ exit_full_screen
    \/ get_window_size
    \/ get_window_position
    \/ \E s \in Sizes : \E c \in Corners : set_window_dimensions(s[1], s[2], c)
    \/ \E p \in Points : set_window_position(p[1], p[2])
    \/ \E p \in Points : left_click(p[1], p[2])
    \/ \E p \in Points : right_click(p[1], p[2])
    \/ \E p \in Points : left_double_click(p[1], p[2])
    \/ \E p \in Points : right_double_click(p[1], p[2])
    \/ \E k \in Keys : press_key(k)
    \/ \E t \in Texts : typewrite(t)
    \/ \E b \in BOOLEAN : find_image_on_screen(b)

UserCall ==
    \/ \E b \in BOOLEAN : open(b)
    \/ close
    \/ GuardedCall

CloseStep(t) ==
    \/ close_97(t)
    \/ close_100(t)
    \/ close_103(t)
    \/ close_105(t)
    \/ close_107(t)
    \/ close_110(t)
    \/ close_111(t)
    \/ close_112(t)

UserStep ==
    \/ open_72
    \/ open_77
    \/ open_81
    \/ body
    \/ CloseStep(Main)

HandlerStep(t) ==
    \/ h_44(t)
    \/ h_45(t)
    \/ h_47(t)
    \/ h_50(t)
    \/ CloseStep(t)

Environment ==
    \E w \in Handles : WindowAppears(w) \/ WindowCloses(w)

Next ==
    \/ UserCall
    \/ UserStep
    \/ \E t \in Handlers : HandlerStep(t)
    \/ Environment

Spec == Init /\ [][Next]_vars

\* A call in progress goes on and every handler thread is scheduled.
FairSpec ==
    /\ Spec
    /\ WF_vars(UserStep)
    /\ \A t \in Handlers : WF_vars(HandlerStep(t))

\* ================================================================ claims
\* What the calls sent, as (message, wParam) pairs.
SentKeys == [i \in 1 .. Len(sent) |-> <<sent[i].args[1], sent[i].args[2]>>]

LiveSubprocesses == (1 .. launched) \ terminated

AliveHandlers == {t \in Handlers : Alive(t)}

\* C1: a call of any method other than open and close made while hwnd is None
\* raises NoOpenedProcess at once, issues no native call and leaves hwnd,
\* the process reference and the kill flag as they were; find_image_on_screen
\* does so for an invalid path too.
C1_DetachedCallRaises ==
    [][(hwnd = None /\ GuardedCall) =>
          /\ raised' = "NoOpenedProcess"
          /\ sent' = << >>
          /\ Idle'
          /\ UNCHANGED instance]_vars

\* C1 happens: after a close (kill set), find_image_on_screen with an invalid
\* path has raised NoOpenedProcess on the detached instance.
C1_Witness ==
    /\ Idle
    /\ hwnd = None
    /\ kill
    /\ ~atCall
    /\ op = "find_image_on_screen"
    /\ args = <<FALSE>>
    /\ raised = "NoOpenedProcess"
    /\ sent = << >>

\* C2: a close() called while no window is attached raises NoOpenedProcess.
C2_CloseRaisesWhenDetached ==
    (Idle /\ op = "close" /\ ~atCall) => raised = "NoOpenedProcess"

\* C3: a close() called while a window is attached issues the close action
\* (terminate or WM_CLOSE) and returns with hwnd and the process reference None.
C3_CloseDetaches ==
    (Idle /\ op = "close" /\ atCall) =>
        /\ raised = ""
        /\ \E i \in 1 .. Len(sent) : sent[i].fn \in {"terminate", "PostMessage"}
        /\ hwnd = None
        /\ process = None

\* C4: the instance never has more than one launched subprocess that close()
\* has not terminated.
C4_SingleSubprocess == Cardinality(LiveSubprocesses) <= 1

\* C5: once the attached window no longer exists, the instance eventually
\* becomes detached.
C5_ClosureDetected == (Truthy(hwnd) /\ ~IsWindow(hwnd)) ~> (hwnd = None)

\* The messages C6 expects of press_key for the keys it speaks of.
C6_Expected(key) ==
    IF ~key.isStr
    THEN <<<<WM_KEYDOWN, key.val[1]>>, <<WM_KEYUP, key.val[1]>>>>
    ELSE IF Lower(key.val) = StrEnter
    THEN <<<<WM_KEYDOWN, VK_RETURN>>, <<WM_KEYUP, VK_RETURN>>>>
    ELSE IF Lower(key.val) = StrTab
    THEN <<<<WM_KEYDOWN, VK_TAB>>, <<WM_KEYUP, VK_TAB>>>>
    ELSE <<<<WM_CHAR, key.val[1]>>>>

\* The keys C6 speaks of: a non-zero int, "enter" or "tab" in any case, one character.
C6_Covered(key) ==
    IF ~key.isStr THEN key.val[1] # 0
    ELSE Lower(key.val) \in {StrEnter, StrTab} \/ Len(key.val) = 1

\* C6: press_key on an attached window sends WM_KEYDOWN then WM_KEYUP for a
\* non-zero virtual-key code and for "enter"/"tab", and one WM_CHAR for a
\* single character.
C6_PressKeySendsDownUp ==
    (Idle /\ op = "press_key" /\ atCall /\ raised = "" /\ C6_Covered(args[1])) =>
        SentKeys = C6_Expected(args[1])

\* C7: with n monitors, set_monitor(m) on an attached window raises
\* InvalidScreen iff m is outside -n .. n-1, and otherwise moves the window to
\* monitor m's (left, top) without resizing.
C7_SetMonitorRange ==
    (Idle /\ op = "set_monitor" /\ atCall /\ raised \in {"", "InvalidScreen"}) =>
        LET n == args[1]
            m == args[2]
            rect == PyIndex(EnumDisplayMonitors(n), m)[3]
        IN  IF m \in -n .. (n - 1)
            THEN /\ raised = ""
                 /\ sent[Len(sent)].fn = "SetWindowPos"
                 /\ sent[Len(sent)].args = <<HWND_TOP, rect[1], rect[2], 0, 0, SWP_NOSIZE>>
            ELSE raised = "InvalidScreen"

\* C8: at most one _close_handler thread is alive, and none for an instance
\* constructed without a hwnd and never opened.
C8_SingleHandler ==
    /\ Cardinality(AliveHandlers) <= 1
    /\ (launched = 0 /\ ~kill /\ ~Truthy(hwnd)) => AliveHandlers = {}

====
